---- MODULE Spec2Model ----
(***************************************************************************)
(* The HMM part-of-speech tagger: the count estimator of HMM.py (train,    *)
(* get_probabilities) and the decoder of viterbi.py (Viterbi.tag).         *)
(*                                                                         *)
(* Numbers.  A Python float that holds a probability is modelled exactly,  *)
(* as a reduced fraction <<numerator, denominator>>; math.log is modelled  *)
(* in fixed point, in millionths of a nat (Log), and sums of logarithms    *)
(* are exact.  The rounding of a float sum is not modelled: two paths      *)
(* whose scores are equal here may differ in the last bit in Python, where *)
(* the same terms are added in another order.  A Python dict is a function *)
(* whose DOMAIN is the set of its keys.                                    *)
(***************************************************************************)
EXTENDS Integers, Sequences, FiniteSets, TLC

VARIABLES
    \* ---- HMM instance (HMM.py:32-43)
    observations, start_counts, transition_counts, emission_counts,
    total_words, total_first_words, total_transitions, tag_counts,
    \* ---- Viterbi instance (viterbi.py:27-35); v_observations is its
    \* field observations
    v_observations, start_prob, trans_prob, emit_prob,
    \* ---- the last call made on either object, and how it ended
    call, ret

hmm_vars == <<observations, start_counts, transition_counts, emission_counts,
              total_words, total_first_words, total_transitions, tag_counts>>
viterbi_vars == <<v_observations, start_prob, trans_prob, emit_prob>>
vars == <<hmm_vars, viterbi_vars, call, ret>>

-----------------------------------------------------------------------------
(* Bounds of the model *)

\* how many of the 17 tags of UPOS_TAGS the model runs with
NumTags == 2
\* longest sentence handed to train
MaxSentLen == 2
\* train is not called once total_words would pass this
MaxTotalWords == 4
\* longest token list handed to Viterbi.tag
MaxTokens == 2
\* a parameter file holds at most this many probability entries
MaxEntries == 2
\* longest text handed to Viterbi.process, in lexical items
MaxTextLen == 3

-----------------------------------------------------------------------------
(* The tag set *)

ALL_UPOS_TAGS ==
    <<"ADJ", "ADP", "ADV", "AUX", "CCONJ", "DET", "INTJ", "NOUN", "NUM",
      "PART", "PRON", "PROPN", "PUNCT", "SCONJ", "SYM", "VERB", "X">>

\* the tags the model keeps, most wanted first
TagChoice == <<"NOUN", "VERB", "ADJ", "DET", "ADP", "ADV", "AUX", "CCONJ",
               "INTJ", "NUM", "PART", "PRON", "PROPN", "PUNCT", "SCONJ",
               "SYM", "X">>

\* UPOS_TAGS, in the order of the source, cut down to NumTags tags
UPOS_TAGS ==
    SelectSeq(ALL_UPOS_TAGS,
              LAMBDA t : \E i \in 1..NumTags : TagChoice[i] = t)

states == {UPOS_TAGS[i] : i \in 1..Len(UPOS_TAGS)}

\* the word forms of the corpus
Words == {"a", "b"}

-----------------------------------------------------------------------------
(* Dicts, floats *)

EmptyDict == [k \in {} |-> 0]

\* F(e) with e computed once, as an assignment to a Python local does,
\* instead of every time F reads it
Bind(e, F(_)) == CHOOSE r \in {F(x) : x \in {e}} : TRUE

\* the dict d with every entry computed when it is built
Built(d) == Bind(d, LAMBDA x : IF DOMAIN x = {} THEN x ELSE x)

\* dict.get(key, default)
Get(d, key, default) == IF key \in DOMAIN d THEN d[key] ELSE default

RECURSIVE GCD(_, _)
GCD(m, n) == IF n = 0 THEN m ELSE GCD(n, m % n)

\* the float n / d (d > 0), as a reduced fraction
Div(n, d) == LET g == GCD(n, d) IN <<n \div g, d \div g>>

\* the float 0.0
Zero == <<0, 1>>

RatAdd(p, q) == Div(p[1] * q[2] + q[1] * p[2], p[2] * q[2])

-----------------------------------------------------------------------------
(* How a call ends *)

None == "None"
Return(v) == [kind |-> "return", value |-> v]
Raise(e) == [kind |-> "raise", value |-> e]
NoCall == [op |-> "none", arg |-> << >>]

-----------------------------------------------------------------------------
(* HMM.train *)

\* the sentences handed to train: lists of (word, tag) pairs
Sentences ==
    UNION {[1..n -> Words \X states] : n \in 0..MaxSentLen}

\* In the operators of the HMM, self is the record of the fields of the HMM
\* the method is called on (hmm_fields for the HMM of the state).

\* a _train_first that counts the first tag and not the sentence
_train_first_tag_only(self, sentence_tags) ==
    IF sentence_tags = << >>
    THEN <<self.start_counts, self.total_first_words>>
    ELSE <<[self.start_counts EXCEPT ![sentence_tags[1]] = @ + 1],
           self.total_first_words>>

\* HMM._train_first: the new <<start_counts, total_first_words>>
_train_first(self, sentence_tags) ==
    IF sentence_tags = << >>
    THEN <<self.start_counts, self.total_first_words>>
    ELSE <<[self.start_counts EXCEPT ![sentence_tags[1]] = @ + 1],
           self.total_first_words + 1>>

\* a loop of _train_trans that stops one pair early: range(len - 2)
RECURSIVE _train_trans_loop_short(_, _, _)
_train_trans_loop_short(sentence_tags, i, acc) ==
    IF i > Len(sentence_tags) - 2
    THEN acc
    ELSE _train_trans_loop_short(sentence_tags, i + 1,
            <<[acc[1] EXCEPT ![sentence_tags[i]][sentence_tags[i + 1]] = @ + 1],
              acc[2] + 1>>)

\* a loop of _train_trans that counts the pairs and not their total
RECURSIVE _train_trans_loop_no_total(_, _, _)
_train_trans_loop_no_total(sentence_tags, i, acc) ==
    IF i > Len(sentence_tags) - 1
    THEN acc
    ELSE _train_trans_loop_no_total(sentence_tags, i + 1,
            <<[acc[1] EXCEPT ![sentence_tags[i]][sentence_tags[i + 1]] = @ + 1],
              acc[2]>>)

\* the loop of HMM._train_trans from index i on (1-based), on the pair
\* acc = <<transition_counts, total_transitions>>
RECURSIVE _train_trans_loop(_, _, _)
_train_trans_loop(sentence_tags, i, acc) ==
    IF i > Len(sentence_tags) - 1
    THEN acc
    ELSE _train_trans_loop(sentence_tags, i + 1,
            <<[acc[1] EXCEPT ![sentence_tags[i]][sentence_tags[i + 1]] = @ + 1],
              acc[2] + 1>>)

\* HMM._train_trans: the new <<transition_counts, total_transitions>>
_train_trans(self, sentence_tags) ==
    IF Len(sentence_tags) < 2
    THEN <<self.transition_counts, self.total_transitions>>
    ELSE _train_trans_loop(sentence_tags, 1,
                           <<self.transition_counts, self.total_transitions>>)

\* a loop body that counts the tag inside the test for a new word only
train_pair_new_only(acc, word, tag) ==
    LET fresh == word \notin DOMAIN acc.emission_counts[tag]
        ec0 == IF fresh
               THEN [acc.emission_counts EXCEPT
                        ![tag] = [w \in DOMAIN @ \cup {word} |->
                                    IF w = word THEN 0 ELSE @[w]]]
               ELSE acc.emission_counts
    IN [observations |-> acc.observations \cup {word},
        emission_counts |-> [ec0 EXCEPT ![tag][word] = @ + 1],
        tag_counts |-> IF fresh
                       THEN [acc.tag_counts EXCEPT ![tag] = @ + 1]
                       ELSE acc.tag_counts,
        total_words |-> acc.total_words + 1]

\* a loop body that starts the dict of the tag again at every new word
train_pair_reset(acc, word, tag) ==
    LET ec0 == IF word \notin DOMAIN acc.emission_counts[tag]
               THEN [acc.emission_counts EXCEPT ![tag] = [w \in {word} |-> 0]]
               ELSE acc.emission_counts
    IN [observations |-> acc.observations \cup {word},
        emission_counts |-> [ec0 EXCEPT ![tag][word] = @ + 1],
        tag_counts |-> [acc.tag_counts EXCEPT ![tag] = @ + 1],
        total_words |-> acc.total_words + 1]

\* one pass of the loop of train over (word, tag), on the record acc
train_pair(acc, word, tag) ==
    LET ec0 == IF word \notin DOMAIN acc.emission_counts[tag]
               THEN [acc.emission_counts EXCEPT
                        ![tag] = [w \in DOMAIN @ \cup {word} |->
                                    IF w = word THEN 0 ELSE @[w]]]
               ELSE acc.emission_counts
    IN [observations |-> acc.observations \cup {word},
        emission_counts |-> [ec0 EXCEPT ![tag][word] = @ + 1],
        tag_counts |-> [acc.tag_counts EXCEPT ![tag] = @ + 1],
        total_words |-> acc.total_words + 1]

RECURSIVE train_loop(_, _, _)
train_loop(sentence, i, acc) ==
    IF i > Len(sentence)
    THEN acc
    ELSE train_loop(sentence, i + 1,
                    train_pair(acc, sentence[i][1], sentence[i][2]))

\* the fields of the HMM as they are
hmm_fields ==
    [observations |-> observations,
     start_counts |-> start_counts,
     transition_counts |-> transition_counts,
     emission_counts |-> emission_counts,
     total_words |-> total_words,
     total_first_words |-> total_first_words,
     total_transitions |-> total_transitions,
     tag_counts |-> tag_counts]

\* train past its first test: the fields of the HMM after it
train_counts(self, sentence_word_tag_pairs) ==
    LET sentence_tags == [i \in 1..Len(sentence_word_tag_pairs) |->
                              sentence_word_tag_pairs[i][2]]
        first == _train_first(self, sentence_tags)
        trans == _train_trans(self, sentence_tags)
        rest == train_loop(sentence_word_tag_pairs, 1,
                  [observations |-> self.observations,
                   emission_counts |-> self.emission_counts,
                   tag_counts |-> self.tag_counts,
                   total_words |-> self.total_words])
    IN [observations |-> rest.observations,
        start_counts |-> first[1],
        transition_counts |-> trans[1],
        emission_counts |-> rest.emission_counts,
        total_words |-> rest.total_words,
        total_first_words |-> first[2],
        total_transitions |-> trans[2],
        tag_counts |-> rest.tag_counts]

\* a train that counts the sentence before it looks whether it is empty
train_counts_empty(self, sentence_word_tag_pairs) ==
    IF sentence_word_tag_pairs = << >>
    THEN [self EXCEPT !.total_first_words = @ + 1]
    ELSE train_counts(self, sentence_word_tag_pairs)

\* the fields of the HMM after train(sentence_word_tag_pairs)
train(self, sentence_word_tag_pairs) ==
    IF sentence_word_tag_pairs = << >>
    THEN self
    ELSE train_counts(self, sentence_word_tag_pairs)

Train(sentence) ==
    /\ total_words + Len(sentence) <= MaxTotalWords
    /\ LET h == train(hmm_fields, sentence)
       IN /\ observations' = h.observations
          /\ start_counts' = h.start_counts
          /\ transition_counts' = h.transition_counts
          /\ emission_counts' = h.emission_counts
          /\ total_words' = h.total_words
          /\ total_first_words' = h.total_first_words
          /\ total_transitions' = h.total_transitions
          /\ tag_counts' = h.tag_counts
    /\ call' = [op |-> "train", arg |-> sentence]
    /\ ret' = Return(None)
    /\ UNCHANGED viterbi_vars

-----------------------------------------------------------------------------
(* HMM.get_probabilities *)

RECURSIVE SumOver(_, _)
\* sum(d.values()) of a dict of integers
SumOver(d, keys) ==
    IF keys = {} THEN 0
    ELSE LET k == CHOOSE x \in keys : TRUE
         IN d[k] + SumOver(d, keys \ {k})

\* prob_params['trans_prob'] after the first loop
trans_prob_of(self) ==
    [current_tag \in DOMAIN self.transition_counts |->
        LET row == self.transition_counts[current_tag]
            total_transitions_from_current == SumOver(row, DOMAIN row)
        IN IF total_transitions_from_current > 0
           THEN [next_tag \in DOMAIN row |->
                    Div(row[next_tag], total_transitions_from_current)]
           ELSE [next_tag \in DOMAIN row |-> Zero]]

\* prob_params['start_prob'] after the second loop
start_prob_of(self) ==
    IF self.total_first_words > 0
    THEN [tag \in DOMAIN self.start_counts |->
            Div(self.start_counts[tag], self.total_first_words)]
    ELSE [tag \in DOMAIN self.start_counts |-> Zero]

\* prob_params['emit_prob'] after the third loop
emit_prob_of(self) ==
    [tag \in DOMAIN self.emission_counts |->
        LET row == self.emission_counts[tag]
            total_occurrences_of_tag == Get(self.tag_counts, tag, 0)
        IN IF total_occurrences_of_tag > 0
           THEN [word \in DOMAIN row |->
                    Div(row[word], total_occurrences_of_tag)]
           ELSE [word \in DOMAIN row |-> Zero]]

\* the dict get_probabilities returns
get_probabilities(self) ==
    [states |-> UPOS_TAGS,
     observations |-> self.observations,
     start_prob |-> start_prob_of(self),
     trans_prob |-> trans_prob_of(self),
     emit_prob |-> emit_prob_of(self),
     total_words |-> self.total_words,
     total_first_words |-> self.total_first_words,
     total_transitions |-> self.total_transitions,
     total_tag_count |-> self.tag_counts]

\* HMM.write_params: the document json.dump writes to the file
write_params(self) ==
    [states |-> UPOS_TAGS,
     observations |-> self.observations,
     start_prob |-> self.start_counts,
     trans_prob |-> self.transition_counts,
     emit_prob |-> self.emission_counts,
     total_words |-> self.total_words,
     total_first_words |-> self.total_first_words,
     total_transitions |-> self.total_transitions,
     total_tag_count |-> self.tag_counts]

\* a get_probabilities that divides start_counts itself, not a copy, and
\* with the integer division
GetProbabilities_in_place ==
    /\ call' = [op |-> "get_probabilities", arg |-> << >>]
    /\ ret' = Return(get_probabilities(hmm_fields))
    /\ start_counts' =
          [state \in states |->
              IF total_first_words > 0
              THEN start_counts[state] \div total_first_words
              ELSE 0]
    /\ UNCHANGED <<observations, transition_counts, emission_counts,
                   total_words, total_first_words, total_transitions,
                   tag_counts, viterbi_vars>>

GetProbabilities ==
    /\ call' = [op |-> "get_probabilities", arg |-> << >>]
    /\ ret' = Return(get_probabilities(hmm_fields))
    /\ UNCHANGED <<hmm_vars, viterbi_vars>>

-----------------------------------------------------------------------------
(* The estimator alone: a fresh HMM, trained and asked for its model *)

\* the fields of an HMM after HMM.__init__
new_HMM ==
    [observations |-> {},
     start_counts |-> [state \in states |-> 0],
     transition_counts |-> [state \in states |-> [state_to \in states |-> 0]],
     emission_counts |-> [state \in states |-> EmptyDict],
     total_words |-> 0,
     total_first_words |-> 0,
     total_transitions |-> 0,
     tag_counts |-> [state \in states |-> 0]]

\* HMM.__init__
InitHMM ==
    /\ observations = {}
    /\ start_counts = [state \in states |-> 0]
    /\ transition_counts = [state \in states |-> [state_to \in states |-> 0]]
    /\ emission_counts = [state \in states |-> EmptyDict]
    /\ total_words = 0
    /\ total_first_words = 0
    /\ total_transitions = 0
    /\ tag_counts = [state \in states |-> 0]

\* Viterbi.__init__ when read_params finds no parameter file
InitViterbiEmpty ==
    /\ v_observations = {}
    /\ start_prob = EmptyDict
    /\ trans_prob = EmptyDict
    /\ emit_prob = EmptyDict

InitEstimator == InitHMM /\ InitViterbiEmpty /\ call = NoCall /\ ret = Return(None)

NextEstimator ==
    \/ \E sentence \in Sentences : Train(sentence)
    \/ GetProbabilities

SpecHMM == InitEstimator /\ [][NextEstimator]_vars

-----------------------------------------------------------------------------
(* Viterbi.read_params: the parameter file *)

\* the probabilities a parameter file may hold
ProbVals == {Zero, <<1, 2>>, <<1, 1>>}

\* the word forms a parameter file knows
FileWords == {"a"}

\* the places of a parameter file: start_prob[t], trans_prob[a][b],
\* emit_prob[t][w]
Slots ==
    {<<"start", t, t>> : t \in states}
        \cup {<<"trans", a, b>> : a \in states, b \in states}
        \cup {<<"emit", t, w>> : t \in states, w \in FileWords}

\* the sets of at most n elements of S
RECURSIVE UpTo(_, _)
UpTo(S, n) ==
    IF n = 0 THEN {{}}
    ELSE LET smaller == UpTo(S, n - 1)
         IN smaller \cup {T \cup {x} : T \in smaller, x \in S}

\* the nested dict of one table of a file whose entries are f
Table(f, kind) ==
    [a \in {s[2] : s \in {x \in DOMAIN f : x[1] = kind}} |->
        [b \in {s[3] : s \in {x \in DOMAIN f : x[1] = kind /\ x[2] = a}} |->
            f[<<kind, a, b>>]]]

\* Viterbi.__init__: the tables after read_params has read a file with the
\* entries f (no entry at all: the file is missing or holds empty tables)
read_params(f) ==
    /\ v_observations = {s[3] : s \in {x \in DOMAIN f : x[1] = "emit"}}
    /\ start_prob = [t \in {s[2] : s \in {x \in DOMAIN f : x[1] = "start"}} |->
                        f[<<"start", t, t>>]]
    /\ trans_prob = Table(f, "trans")
    /\ emit_prob = Table(f, "emit")

-----------------------------------------------------------------------------
(* Viterbi.tag *)

\* the float 1e-6 of the lookups
FLOOR_PROB == <<1, 1000000>>

\* ln(k) in millionths, for the integers the model's fractions are made of
LnInt(k) ==
    CASE k = 1 -> 0
      [] k = 2 -> 693147
      [] k = 3 -> 1098612
      [] k = 4 -> 1386294
      [] k = 5 -> 1609438
      [] k = 6 -> 1791759
      [] k = 7 -> 1945910
      [] k = 8 -> 2079442
      [] k = 1000000 -> 13815511

\* math.log(p) for p > 0, in millionths; math.log(0.0) raises ValueError
Log(p) == LnInt(p[1]) - LnInt(p[2])

\* the three lookups of tag
start_lookup(tag) == Get(start_prob, tag, FLOOR_PROB)
emit_lookup(tag, word) == Get(Get(emit_prob, tag, EmptyDict), word, FLOOR_PROB)
trans_lookup(prev_tag, current_tag) ==
    Get(Get(trans_prob, prev_tag, EmptyDict), current_tag, FLOOR_PROB)

\* -inf: below every sum of logarithms the model can form
MinusInf == 0 - 2000000000

Tag1(i) == UPOS_TAGS[i]

\* some math.log of tag(words) is handed 0.0: every lookup the loops make is
\* made whatever the others are
LogOfZero(words) ==
    \/ \E tag \in states : start_lookup(tag) = Zero
    \/ \E tag \in states, t \in 1..Len(words) : emit_lookup(tag, words[t]) = Zero
    \/ /\ Len(words) >= 2
       /\ \E prev_tag \in states, current_tag \in states :
              trans_lookup(prev_tag, current_tag) = Zero

\* trellis[0] and backpointers[0]
trellis_first(first_word) ==
    [trellis |-> Built([tag \in states |->
                    Log(start_lookup(tag)) + Log(emit_lookup(tag, first_word))]),
     backpointers |-> [tag \in states |-> None]]

\* a path_prob that reads the transition the wrong way round
path_prob_swapped(prev_row, prev_tag, current_tag) ==
    prev_row[prev_tag] + Log(trans_lookup(current_tag, prev_tag))

\* the score of coming to current_tag from prev_tag
path_prob(prev_row, prev_tag, current_tag) ==
    prev_row[prev_tag] + Log(trans_lookup(prev_tag, current_tag))

\* a test that also replaces the best predecessor on an equal score
better_or_equal(path, max_prob) == path >= max_prob

\* the test of a loop whose max_prob starts at 0 and not at -inf
better_above_zero(path, max_prob) ==
    path > (IF max_prob = MinusInf THEN 0 ELSE max_prob)

\* the test that replaces the best predecessor so far
better(path, max_prob) == path > max_prob

\* the loop over prev_tag from UPOS_TAGS[i] on, on acc = <<max_prob, best_prev_tag>>
RECURSIVE prev_loop(_, _, _, _)
prev_loop(prev_row, current_tag, i, acc) ==
    IF i > Len(UPOS_TAGS)
    THEN acc
    ELSE LET p == path_prob(prev_row, Tag1(i), current_tag)
         IN prev_loop(prev_row, current_tag, i + 1,
                      IF better(p, acc[1]) THEN <<p, Tag1(i)>> ELSE acc)

\* a trellis row that leaves the emission of the current word out
trellis_next_no_emission(prev_row, current_word) ==
    Bind(Built([current_tag \in states |->
                    prev_loop(prev_row, current_tag, 1, <<MinusInf, None>>)]),
         LAMBDA best :
            [trellis |-> Built([current_tag \in states |->
                            best[current_tag][1]]),
             backpointers |-> Built([current_tag \in states |->
                                        best[current_tag][2]])])

\* trellis[t] and backpointers[t] from trellis[t-1]
trellis_next(prev_row, current_word) ==
    Bind(Built([current_tag \in states |->
                    prev_loop(prev_row, current_tag, 1, <<MinusInf, None>>)]),
         LAMBDA best :
            [trellis |-> Built([current_tag \in states |->
                            best[current_tag][1]
                                + Log(emit_lookup(current_tag, current_word))]),
             backpointers |-> Built([current_tag \in states |->
                                        best[current_tag][2]])])

\* the rows of the trellis and of the backpointers, rows[t + 1] being those
\* of time step t
RECURSIVE trellis_rows(_, _)
trellis_rows(words, n) ==
    IF n = 1
    THEN <<trellis_first(words[1])>>
    ELSE Bind(trellis_rows(words, n - 1),
              LAMBDA before :
                Bind(before[n - 1].trellis,
                     LAMBDA prev_row :
                        Append(before, trellis_next(prev_row, words[n]))))

\* a max that keeps the last of the keys of the highest value
max_key_last(row) ==
    Tag1(CHOOSE i \in 1..Len(UPOS_TAGS) :
            /\ \A j \in 1..Len(UPOS_TAGS) : row[Tag1(j)] <= row[Tag1(i)]
            /\ \A j \in (i + 1)..Len(UPOS_TAGS) : row[Tag1(j)] < row[Tag1(i)])

\* max(row, key=row.get): the first key, in the order of insertion, whose
\* value no other value exceeds
max_key(row) ==
    Tag1(CHOOSE i \in 1..Len(UPOS_TAGS) :
            /\ \A j \in 1..Len(UPOS_TAGS) : row[Tag1(j)] <= row[Tag1(i)]
            /\ \A j \in 1..(i - 1) : row[Tag1(j)] < row[Tag1(i)])

\* a backtrace that stops one time step early: range(len(words) - 1, 1, -1)
RECURSIVE backtrace_short(_, _, _)
backtrace_short(rows, t, best_path) ==
    IF t <= 1
    THEN best_path
    ELSE backtrace_short(rows, t - 1,
            <<rows[t + 1].backpointers[Head(best_path)]>> \o best_path)

\* a backtrace that appends each tag it finds: the path comes out backwards
RECURSIVE backtrace_reversed(_, _, _)
backtrace_reversed(rows, t, best_path) ==
    IF t <= 0
    THEN best_path
    ELSE backtrace_reversed(rows, t - 1,
            Append(best_path,
                   rows[t + 1].backpointers[best_path[Len(best_path)]]))

\* the backtrace from time step t (0-based) down, best_path starting with
\* the tag of time step t
RECURSIVE backtrace(_, _, _)
backtrace(rows, t, best_path) ==
    IF t <= 0
    THEN best_path
    ELSE backtrace(rows, t - 1,
                   <<rows[t + 1].backpointers[Head(best_path)]>> \o best_path)

\* tag(words) once words[0] has been read
tag_body(words) ==
    IF LogOfZero(words)
    THEN Raise("ValueError")
    ELSE Bind(trellis_rows(words, Len(words)),
              LAMBDA rows :
                Bind(max_key(rows[Len(words)].trellis),
                     LAMBDA best_last_tag :
                        Return(backtrace(rows, Len(words) - 1,
                                         <<best_last_tag>>))))

\* a tag that answers an empty token list with an empty tag list
tag_empty_ok(words) ==
    IF words = << >>
    THEN Return(<< >>)
    ELSE tag_body(words)

\* how tag(words) ends
tag(words) ==
    IF words = << >>
    THEN Raise("IndexError")
    ELSE tag_body(words)

\* the token lists handed to tag; "b" is in no parameter file
TokenLists == UNION {[1..n -> Words] : n \in 0..MaxTokens}

\* a tag that keeps its last answer and gives it again to the next token list
\* of the same length
TagCall_cached(words) ==
    /\ call' = [op |-> "tag", arg |-> words]
    /\ ret' = IF call.op = "tag" /\ Len(call.arg) = Len(words)
              THEN ret
              ELSE tag(words)
    /\ UNCHANGED <<hmm_vars, viterbi_vars>>

\* a tag that adds the tokens it is given to the observations of the model
TagCall_learns(words) ==
    /\ call' = [op |-> "tag", arg |-> words]
    /\ ret' = tag(words)
    /\ v_observations' = v_observations \cup {words[i] : i \in 1..Len(words)}
    /\ UNCHANGED <<hmm_vars, start_prob, trans_prob, emit_prob>>

TagCall(words) ==
    /\ call' = [op |-> "tag", arg |-> words]
    /\ ret' = tag(words)
    /\ UNCHANGED <<hmm_vars, viterbi_vars>>

-----------------------------------------------------------------------------
(* Viterbi.process *)

\* A string is a list of lexical items: a word (a run of \w characters, kept
\* whole), a blank or a punctuation mark.  Two words never stand side by
\* side, as a run of \w characters is one word.
WordItems == {"a", "A"}
TextItems == WordItems \cup {" ", ".", "?", ","}

\* the values handed to process: a value that is not a str, and the strings
Strings ==
    {c \in UNION {[1..n -> TextItems] : n \in 0..MaxTextLen} :
        \A i \in 1..(Len(c) - 1) :
            ~(c[i] \in WordItems /\ c[i + 1] \in WordItems)}
Texts ==
    {[is_str |-> FALSE, chars |-> << >>]}
        \cup {[is_str |-> TRUE, chars |-> c] : c \in Strings}

\* str.lower() of one item
lower(c) == IF c = "A" THEN "a" ELSE c

\* re.split('([.!?])', text) from item i on: part is the piece being read,
\* acc the pieces before it; a mark closes the piece and is a piece itself
RECURSIVE split_loop(_, _, _, _)
split_loop(chars, i, part, acc) ==
    IF i > Len(chars)
    THEN Append(acc, part)
    ELSE IF chars[i] \in {".", "!", "?"}
         THEN split_loop(chars, i + 1, << >>, acc \o <<part, <<chars[i]>>>>)
         ELSE split_loop(chars, i + 1, Append(part, chars[i]), acc)

split(chars) == split_loop(chars, 1, << >>, << >>)

\* a findall that knows the words only
findall_words_only(sentence_part) ==
    SelectSeq([i \in 1..Len(sentence_part) |-> lower(sentence_part[i])],
              LAMBDA c : c \in {lower(w) : w \in WordItems})

\* re.findall(r"\b[\w']+\b|[.,?!]", sentence_part.lower())
findall(sentence_part) ==
    SelectSeq([i \in 1..Len(sentence_part) |-> lower(sentence_part[i])],
              LAMBDA c : c \in {lower(w) : w \in WordItems}
                                  \cup {".", ",", "?", "!"})

\* list(zip(words, tags))
zip(words, tags) ==
    [k \in 1..(IF Len(words) < Len(tags) THEN Len(words) ELSE Len(tags)) |->
        <<words[k], tags[k]>>]

\* the loop of process over sentences from index i on; an exception of tag
\* ends it
RECURSIVE process_loop(_, _, _)
process_loop(sentences, i, tagged_text) ==
    IF i > Len(sentences)
    THEN Return(tagged_text)
    ELSE Bind(findall(sentences[i]),
              LAMBDA words :
                IF words = << >>
                THEN process_loop(sentences, i + 1, tagged_text)
                ELSE Bind(tag(words),
                          LAMBDA tags :
                            IF tags.kind = "raise"
                            THEN tags
                            ELSE process_loop(sentences, i + 1,
                                    Append(tagged_text,
                                           zip(words, tags.value)))))

\* how process(text) ends
process(text) ==
    IF ~text.is_str
    THEN Raise("TypeError")
    ELSE IF Len(text.chars) = 0
         THEN Raise("ValueError")
         ELSE process_loop(split(text.chars), 1, << >>)

Process(text) ==
    /\ call' = [op |-> "process", arg |-> text]
    /\ ret' = process(text)
    /\ UNCHANGED <<hmm_vars, viterbi_vars>>

-----------------------------------------------------------------------------
(* The decoder alone: a Viterbi built on some parameter file, asked to tag *)

ParamFiles == UNION {[S -> ProbVals] : S \in UpTo(Slots, MaxEntries)}

InitDecoder ==
    /\ InitHMM
    /\ \E f \in ParamFiles : read_params(f)
    /\ call = NoCall
    /\ ret = Return(None)

NextDecoder == \E words \in TokenLists : TagCall(words)

SpecViterbi == InitDecoder /\ [][NextDecoder]_vars

-----------------------------------------------------------------------------
(* The decoder asked to process a text, on a file of start and emission *)
(* probabilities                                                        *)

ProcessFiles ==
    {f \in ParamFiles : \A x \in DOMAIN f : x[1] \in {"start", "emit"}}

InitProcess ==
    /\ InitHMM
    /\ \E f \in ProcessFiles : read_params(f)
    /\ call = NoCall
    /\ ret = Return(None)

\* one run builds a Viterbi and hands it one text
NextProcess == call.op = "none" /\ \E text \in Texts : Process(text)

SpecProcess == InitProcess /\ [][NextProcess]_vars

-----------------------------------------------------------------------------
(* The estimator and the decoder together: train, derive, load, tag *)

\* the model get_probabilities has returned is written out as the parameter
\* document and a Viterbi is built on it: read_params takes its four tables
LoadModel ==
    /\ call.op = "get_probabilities"
    /\ v_observations' = ret.value.observations
    /\ start_prob' = ret.value.start_prob
    /\ trans_prob' = ret.value.trans_prob
    /\ emit_prob' = ret.value.emit_prob
    /\ call' = [op |-> "read_params", arg |-> << >>]
    /\ ret' = Return(None)
    /\ UNCHANGED hmm_vars

NextPipeline ==
    \/ /\ call.op \in {"none", "train"}
       /\ \E sentence \in Sentences : Train(sentence)
    \/ /\ call.op \in {"none", "train"}
       /\ GetProbabilities
    \/ LoadModel
    \/ /\ call.op \in {"read_params", "tag"}
       /\ \E words \in TokenLists : TagCall(words)

SpecPipeline == InitEstimator /\ [][NextPipeline]_vars

-----------------------------------------------------------------------------
(* Properties of the estimator, checked under SpecHMM *)

\* the model get_probabilities has just returned
Derived == call.op = "get_probabilities" /\ ret.kind = "return"
model == ret.value

\* the size of the closed vocabulary: the observed words and the
\* out-of-vocabulary sentinel
OOV == "<OOV>"
VocabularySize == Cardinality(observations) + 1

RECURSIVE RatSum(_, _)
\* the sum of the fractions d[k], k in keys
RatSum(d, keys) ==
    IF keys = {} THEN Zero
    ELSE LET k == CHOOSE x \in keys : TRUE
         IN RatAdd(d[k], RatSum(d, keys \ {k}))

\* C4: every start, transition and emission probability of the model
\* get_probabilities returns is strictly greater than 0
C4_AllProbabilitiesPositive ==
    Derived =>
        /\ \A tg \in DOMAIN model.start_prob : model.start_prob[tg][1] > 0
        /\ \A a \in DOMAIN model.trans_prob :
              \A b \in DOMAIN model.trans_prob[a] : model.trans_prob[a][b][1] > 0
        /\ \A tg \in DOMAIN model.emit_prob :
              \A w \in DOMAIN model.emit_prob[tg] : model.emit_prob[tg][w][1] > 0

\* C6: train called with an empty sentence returns normally and leaves every
\* count table and total of the HMM as it was
C6_TrainEmptyIsNoOp ==
    [][(call'.op = "train" /\ call'.arg = << >>)
          => (ret'.kind = "return" /\ hmm_vars' = hmm_vars)]_vars

\* train([]) has been called on an HMM that already holds counts
C6_Witness ==
    /\ call.op = "train"
    /\ call.arg = << >>
    /\ total_words > 0
    /\ total_first_words > 0

\* C7: the start probability of every tag is
\* (start_counts[tag] + 1) / (total_first_words + number of tags)
C7_StartSmoothed ==
    Derived =>
        \A tg \in states :
            model.start_prob[tg]
                = Div(start_counts[tg] + 1,
                      total_first_words + Cardinality(states))

\* C8: the transition probability of every pair of tags (tagA, tagB) is
\* (transition_counts[tagA][tagB] + 1)
\*     / (sum of transition_counts[tagA] + number of tags)
C8_TransitionSmoothed ==
    Derived =>
        \A tagA \in states, tagB \in states :
            model.trans_prob[tagA][tagB]
                = Div(transition_counts[tagA][tagB] + 1,
                      SumOver(transition_counts[tagA], states)
                          + Cardinality(states))

\* C9: for every tag, every word of the vocabulary has an emission
\* probability (emission_counts[tag][word] + 1) / (tag_counts[tag] +
\* vocabulary size), a word never seen with the tag counting 0, and the
\* out-of-vocabulary sentinel has the entry 1 / (tag_counts[tag] +
\* vocabulary size)
C9_EmissionSmoothed ==
    Derived =>
        \A tg \in states :
            /\ \A word \in observations :
                  /\ word \in DOMAIN model.emit_prob[tg]
                  /\ model.emit_prob[tg][word]
                        = Div(Get(emission_counts[tg], word, 0) + 1,
                              tag_counts[tg] + VocabularySize)
            /\ OOV \in DOMAIN model.emit_prob[tg]
            /\ model.emit_prob[tg][OOV]
                  = Div(1, tag_counts[tg] + VocabularySize)

\* C10: the start probabilities sum to 1 over the tag set, and so do the
\* transition probabilities out of every tag
C10_StartAndTransitionsSumToOne ==
    Derived =>
        /\ RatSum(model.start_prob, states) = <<1, 1>>
        /\ \A a \in states : RatSum(model.trans_prob[a], states) = <<1, 1>>

\* C11: for every tag the emission probabilities of the model sum to 1 over
\* the vocabulary together with the out-of-vocabulary sentinel
C11_EmissionsSumToOne ==
    Derived =>
        \A tg \in states :
            RatSum(model.emit_prob[tg],
                   DOMAIN model.emit_prob[tg] \cap (observations \cup {OOV}))
                = <<1, 1>>

\* C12: get_probabilities leaves every count table and total of the HMM as
\* it was, and a second call with no train in between returns the same model
C12_GetProbabilitiesIsPure ==
    [][call'.op = "get_probabilities"
          => /\ hmm_vars' = hmm_vars
             /\ call.op = "get_probabilities" => ret' = ret]_vars

\* get_probabilities has been called on an HMM that holds counts
C12_Witness ==
    /\ Derived
    /\ total_transitions > 0
    /\ \E tg \in states : model.start_prob[tg] = <<1, 1>>

\* C13: for every tag, tag_counts[tag] is the sum of emission_counts[tag]
\* over all words, and no count is negative
C13_TagCountsAreEmissionTotals ==
    /\ \A tg \in states :
          /\ tag_counts[tg]
                = SumOver(emission_counts[tg], DOMAIN emission_counts[tg])
          /\ tag_counts[tg] >= 0
          /\ start_counts[tg] >= 0
          /\ \A w \in DOMAIN emission_counts[tg] : emission_counts[tg][w] >= 0
          /\ \A tg2 \in states : transition_counts[tg][tg2] >= 0
    /\ total_words >= 0
    /\ total_first_words >= 0
    /\ total_transitions >= 0

\* a tag has been counted with the same word twice and with another word
C13_Witness ==
    \E tg \in states :
        /\ Cardinality(DOMAIN emission_counts[tg]) >= 2
        /\ \E w \in DOMAIN emission_counts[tg] : emission_counts[tg][w] >= 2

\* C14: after any sequence of train calls on a fresh HMM, start_counts[tag]
\* is the number of trained non-empty sentences whose first tag is tag and
\* total_first_words is the number of trained non-empty sentences: both start
\* at zero, a train of a non-empty sentence adds exactly one to the count of
\* its first tag and to total_first_words, no other step changes them, and
\* total_first_words is always the sum of start_counts.
C14_StartCountsCountFirstTags ==
    /\ total_first_words = 0
    /\ \A tg \in states : start_counts[tg] = 0
    /\ [][IF call'.op = "train" /\ call'.arg # << >>
           THEN /\ start_counts' =
                      [start_counts EXCEPT ![call'.arg[1][2]] = @ + 1]
                /\ total_first_words' = total_first_words + 1
           ELSE UNCHANGED <<start_counts, total_first_words>>]_vars
    /\ [](total_first_words = SumOver(start_counts, states))

C14_Witness ==
    /\ call.op = "train"
    /\ total_first_words >= 2
    /\ \A tg \in states : start_counts[tg] >= 1

\* the number of positions i with (t_i, t_i+1) = (a, b) in the tags of sentence
AdjacentPairs(sentence, a, b) ==
    Cardinality({i \in 1..(Len(sentence) - 1) :
                    sentence[i][2] = a /\ sentence[i + 1][2] = b})

\* C15: one train call increases transition_counts[a][b] by exactly the
\* number of adjacent positions of the sentence tagged (a, b), whatever was
\* trained before (nothing is counted from the last tag of the sentence
\* before to the first tag of this one), and no other step changes a
\* transition count.
C15_TransitionsCountAdjacentPairs ==
    [][IF call'.op = "train"
       THEN \A a \in states : \A b \in states :
               transition_counts'[a][b] =
                   transition_counts[a][b] + AdjacentPairs(call'.arg, a, b)
       ELSE UNCHANGED transition_counts]_vars

C15_Witness ==
    /\ call.op = "train"
    /\ Len(call.arg) = 2
    /\ total_first_words = 2
    /\ total_transitions = 1
    /\ \E a \in states : \E b \in states :
          /\ a # b
          /\ transition_counts[a][b] = 1
          /\ AdjacentPairs(call.arg, a, b) = 1

\* entry-wise sum of two dicts of counts
MergeDict(d1, d2) ==
    [k \in DOMAIN d1 \cup DOMAIN d2 |-> Get(d1, k, 0) + Get(d2, k, 0)]

\* entry-wise sum of the count tables and totals of two HMMs
Merge(h1, h2) ==
    [observations |-> h1.observations \cup h2.observations,
     start_counts |-> MergeDict(h1.start_counts, h2.start_counts),
     transition_counts |->
         [a \in states |-> MergeDict(h1.transition_counts[a],
                                     h2.transition_counts[a])],
     emission_counts |->
         [a \in states |-> MergeDict(h1.emission_counts[a],
                                     h2.emission_counts[a])],
     total_words |-> h1.total_words + h2.total_words,
     total_first_words |-> h1.total_first_words + h2.total_first_words,
     total_transitions |-> h1.total_transitions + h2.total_transitions,
     tag_counts |-> MergeDict(h1.tag_counts, h2.tag_counts)]

\* C16: the counts do not depend on the order of the train calls: at every
\* train(s2), training after it any s1 that the bound on the words still
\* admits gives the state that train(s1) and then train(s2) gives, and the
\* state after train(s2) is the entry-wise sum of the state before it and of
\* the counts of a fresh HMM trained on s2.
C16_TrainOrderIndependent ==
    [][call'.op = "train"
          => /\ \A s1 \in {s \in Sentences :
                                total_words' + Len(s) <= MaxTotalWords} :
                   train(hmm_fields', s1)
                       = train(train(hmm_fields, s1), call'.arg)
             /\ hmm_fields' = Merge(hmm_fields, train(new_HMM, call'.arg))]_vars

C16_Witness ==
    /\ call.op = "train"
    /\ Len(call.arg) = 2
    /\ total_words = 3
    /\ \E tg \in states : Cardinality(DOMAIN emission_counts[tg]) = 2

\* p < q for two fractions
RatLess(p, q) == p[1] * q[2] < q[1] * p[2]

\* the fields self with emission_counts[tg][w] one higher (an entry that is
\* not there counts as 0) and every other count as it is
OneMoreEmission(self, tg, w) ==
    [self EXCEPT !.emission_counts[tg] =
        [x \in DOMAIN @ \cup {w} |->
            Get(@, x, 0) + (IF x = w THEN 1 ELSE 0)]]

\* C22 as claimed: in every reachable state of the counts, for every tag and
\* every word, one more in emission_counts[tag][word], all other counts being
\* the same, gives a strictly higher emit_prob[tag][word] in the model of
\* get_probabilities (a word with no entry has the probability 0)
C22_EmissionMonotonic ==
    \A tg \in states : \A w \in Words :
        RatLess(Get(emit_prob_of(hmm_fields)[tg], w, Zero),
                emit_prob_of(OneMoreEmission(hmm_fields, tg, w))[tg][w])

\* the document write_params writes in this state
document == write_params(hmm_fields)

\* C23 as claimed: after any sequence of train calls, every value that the
\* document of write_params holds under start_prob, trans_prob and emit_prob
\* is a number in (0, 1]
C23_DocumentHoldsProbabilities ==
    /\ \A tg \in DOMAIN document.start_prob :
          0 < document.start_prob[tg] /\ document.start_prob[tg] <= 1
    /\ \A a \in DOMAIN document.trans_prob :
          \A b \in DOMAIN document.trans_prob[a] :
              0 < document.trans_prob[a][b] /\ document.trans_prob[a][b] <= 1
    /\ \A tg \in DOMAIN document.emit_prob :
          \A w \in DOMAIN document.emit_prob[tg] :
              0 < document.emit_prob[tg][w] /\ document.emit_prob[tg][w] <= 1

RECURSIVE SumOfRows(_, _)
\* the sum of all the entries of a dict of dicts of integers
SumOfRows(d, keys) ==
    IF keys = {} THEN 0
    ELSE LET k == CHOOSE x \in keys : TRUE
         IN SumOver(d[k], DOMAIN d[k]) + SumOfRows(d, keys \ {k})

\* C27: after any sequence of train calls on a fresh HMM, total_transitions
\* is the sum of all the entries of transition_counts and is total_words
\* less total_first_words.
C27_TransitionsTotal ==
    /\ total_transitions = SumOfRows(transition_counts, DOMAIN transition_counts)
    /\ total_transitions = total_words - total_first_words

\* two sentences of two words have been trained
C27_Witness ==
    /\ call.op = "train"
    /\ total_first_words = 2
    /\ total_transitions = 2
    /\ total_words = 4

-----------------------------------------------------------------------------
(* Properties of the decoder, checked under SpecViterbi *)

\* tag has just been called on a token list that is not empty
Tagged == call.op = "tag" /\ call.arg # << >>

\* the tag sequences of length n over the fixed tag set
TagSequences(n) == [1..n -> states]

RECURSIVE Score(_, _, _)
\* the total score of the tags path[1..n] for the tokens words[1..n]: the log
\* start probability of the first tag, the log emission probability of every
\* token under its tag, the log transition probability between consecutive
\* tags, added in the order of the time steps
Score(words, path, n) ==
    IF n = 1
    THEN Log(start_lookup(path[1])) + Log(emit_lookup(path[1], words[1]))
    ELSE Score(words, path, n - 1)
            + Log(trans_lookup(path[n - 1], path[n]))
            + Log(emit_lookup(path[n], words[n]))

\* C1: when every probability tag looks up is positive, the sequence it
\* returns for a token list that is not empty scores at least as high as
\* every tag sequence of the same length
C1_ViterbiOptimal ==
    (Tagged /\ ~LogOfZero(call.arg)) =>
        /\ ret.kind = "return"
        /\ \A other \in TagSequences(Len(call.arg)) :
              Score(call.arg, ret.value, Len(call.arg))
                  >= Score(call.arg, other, Len(call.arg))

\* tag has returned a best path that does not start with the tag that is
\* best for the first token alone
C1_Witness ==
    /\ Tagged
    /\ Len(call.arg) >= 2
    /\ ret.kind = "return"
    /\ ret.value[1] # max_key(trellis_first(call.arg[1]).trellis)

\* C2: the list tag returns for a token list that is not empty has one tag
\* for each token, at the token's position
C2_LengthPreserved ==
    (Tagged /\ ret.kind = "return") =>
        /\ Len(ret.value) = Len(call.arg)
        /\ DOMAIN ret.value = DOMAIN call.arg

\* tag has returned the tags of a token list of the greatest length
C2_Witness ==
    /\ Tagged
    /\ ret.kind = "return"
    /\ Len(call.arg) = MaxTokens
    /\ Len(ret.value) = MaxTokens

\* some probability tag(words) looks up is 0.0 in the model, or has no entry
ZeroOrMissing(words) ==
    \/ LogOfZero(words)
    \/ \E tg \in states : tg \notin DOMAIN start_prob
    \/ \E tg \in states, t \in 1..Len(words) :
          words[t] \notin DOMAIN Get(emit_prob, tg, EmptyDict)
    \/ /\ Len(words) >= 2
       /\ \E a \in states, b \in states :
              b \notin DOMAIN Get(trans_prob, a, EmptyDict)

\* C3: when the model holds 0.0, or no entry, for some probability tag looks
\* up, tag puts the floor in its place and returns: it does not raise
C3_ZeroOrMissingFloored ==
    (Tagged /\ ZeroOrMissing(call.arg)) => ret.kind = "return"

C19_OOVUsesModelOOVProbability ==
    \A t \in 1..Len(call.arg) :
        (call.op = "tag" /\ call.arg[t] \notin v_observations)
            => /\ ret.kind = "return"
               /\ \A tg \in states :
                     /\ OOV \in DOMAIN Get(emit_prob, tg, EmptyDict)
                     /\ emit_lookup(tg, call.arg[t]) = emit_prob[tg][OOV]

\* C21 as claimed: tag on a model in which a tag of the tag set has no entry
\* in start_prob, in trans_prob or in emit_prob ends with a
\* MissingParameterError and returns no tag sequence
C21_MissingTagRaises ==
    (/\ Tagged
     /\ \E tg \in states : \/ tg \notin DOMAIN start_prob
                           \/ tg \notin DOMAIN trans_prob
                           \/ tg \notin DOMAIN emit_prob)
        => ret = Raise("MissingParameterError")

\* the place of a tag in UPOS_TAGS
Index(tg) == CHOOSE i \in 1..Len(UPOS_TAGS) : UPOS_TAGS[i] = tg

\* no tag has a higher value than x in the dict f over the tags
IsMax(f, x) == \A y \in states : f[y] <= f[x]

\* the scores of the predecessors of the cell (t, s), t >= 1 being the
\* 0-based time step: p |-> trellis[t-1][p] + ln trans_prob[p][s]
PathScores(rows, t, s) ==
    [p \in states |-> path_prob(rows[t].trellis, p, s)]

\* C24: when tag returns, the backpointer of every cell of a time step t >= 1
\* comes no later in UPOS_TAGS than any predecessor of maximal score, and the
\* last tag returned comes no later in UPOS_TAGS than any tag of maximal
\* score in the last row: ties go to the first tag in the order.
C24_TiesGoToFirstTag ==
    (Tagged /\ ret.kind = "return") =>
        Bind(trellis_rows(call.arg, Len(call.arg)),
             LAMBDA rows :
                /\ \A t \in 1..(Len(call.arg) - 1) : \A s \in states :
                      Bind(PathScores(rows, t, s),
                           LAMBDA scores :
                              \A p \in states :
                                  IsMax(scores, p) =>
                                      Index(rows[t + 1].backpointers[s])
                                          <= Index(p))
                /\ \A s \in states :
                      IsMax(rows[Len(call.arg)].trellis, s) =>
                          Index(ret.value[Len(call.arg)]) <= Index(s))

\* a call on two tokens that has returned, with a cell that two predecessors
\* reach with the maximal score and a last row with two maximal tags
C24_Witness ==
    /\ Tagged
    /\ ret.kind = "return"
    /\ Len(call.arg) = 2
    /\ start_prob # EmptyDict
    /\ Bind(trellis_rows(call.arg, 2),
            LAMBDA rows :
               /\ \E s \in states : \E p \in states : \E q \in states :
                     /\ p # q
                     /\ IsMax(PathScores(rows, 1, s), p)
                     /\ IsMax(PathScores(rows, 1, s), q)
               /\ \E s1 \in states : \E s2 \in states :
                     /\ s1 # s2
                     /\ IsMax(rows[2].trellis, s1)
                     /\ IsMax(rows[2].trellis, s2))

\* the highest value of the dict f over the tags
MaxOver(f) == CHOOSE m \in {f[y] : y \in states} : \A y \in states : f[y] <= m

\* C25: when tag returns, for every time step t from 1 to n - 1 and every tag
\* s, trellis[t][s] is the maximum over the predecessors p of
\* trellis[t-1][p] + ln trans_prob[p][s], plus ln emit_prob[s][token t], and
\* backpointers[t][s] is a tag that attains this maximum.
C25_TrellisRecursion ==
    (Tagged /\ ret.kind = "return") =>
        Bind(trellis_rows(call.arg, Len(call.arg)),
             LAMBDA rows :
                \A t \in 1..(Len(call.arg) - 1) : \A s \in states :
                    Bind(PathScores(rows, t, s),
                         LAMBDA scores :
                            /\ rows[t + 1].trellis[s] =
                                  MaxOver(scores)
                                      + Log(emit_lookup(s, call.arg[t + 1]))
                            /\ rows[t + 1].backpointers[s] \in states
                            /\ IsMax(scores, rows[t + 1].backpointers[s])))

\* a call on two tokens that has returned, with a cell whose predecessors
\* have different scores and whose emission is an entry of the model
C25_Witness ==
    /\ Tagged
    /\ ret.kind = "return"
    /\ Len(call.arg) = 2
    /\ \E s \in states :
          /\ call.arg[2] \in DOMAIN Get(emit_prob, s, EmptyDict)
          /\ Bind(trellis_rows(call.arg, 2),
                  LAMBDA rows :
                     \E p \in states :
                        ~IsMax(PathScores(rows, 1, s), p))

\* C26: the sequence tag returns has one tag per token, in the order of the
\* tokens; its last tag has the highest value of the last trellis row, and
\* the tag at every position t - 1 is backpointers[t] of the tag at
\* position t.
C26_BacktraceFollowsBackpointers ==
    (Tagged /\ ret.kind = "return") =>
        Bind(trellis_rows(call.arg, Len(call.arg)),
             LAMBDA rows :
                /\ Len(ret.value) = Len(call.arg)
                /\ IsMax(rows[Len(call.arg)].trellis, ret.value[Len(call.arg)])
                /\ \A t \in 1..(Len(call.arg) - 1) :
                      ret.value[t] = rows[t + 1].backpointers[ret.value[t + 1]])

\* a call on two tokens has returned two different tags, the second one
\* alone at the top of the last row
C26_Witness ==
    /\ Tagged
    /\ ret.kind = "return"
    /\ Len(call.arg) = 2
    /\ ret.value[1] # ret.value[2]
    /\ Bind(trellis_rows(call.arg, 2),
            LAMBDA rows : ~IsMax(rows[2].trellis, ret.value[1]))

\* C28: on a model whose looked-up probabilities are all positive, tag on a
\* token list that is not empty returns, and every element of the sequence
\* is a tag of UPOS_TAGS: None, the first best_prev_tag and the backpointer
\* of time step 0, is never in it.
C28_OnlyTagsReturned ==
    (Tagged /\ ~LogOfZero(call.arg)) =>
        /\ ret.kind = "return"
        /\ \A i \in 1..Len(ret.value) :
              ret.value[i] # None /\ ret.value[i] \in states

\* a call on two tokens has returned on a model that has a start, a
\* transition or an emission entry, all the probabilities looked up positive
C28_Witness ==
    /\ Tagged
    /\ ~LogOfZero(call.arg)
    /\ ret.kind = "return"
    /\ Len(ret.value) = 2
    /\ trans_prob # EmptyDict

\* the Viterbi has found no parameter file: its tables are the empty ones
\* of __init__
NoParameters ==
    /\ v_observations = {}
    /\ start_prob = EmptyDict
    /\ trans_prob = EmptyDict
    /\ emit_prob = EmptyDict

\* C29: on a Viterbi whose parameter file is missing or undecodable, every
\* lookup of tag gives the floor 1e-6 and tag returns, for a token list of
\* length n >= 1, n times the first tag of UPOS_TAGS, which is ADJ in the
\* list of the source (and in the model whenever ADJ is among its tags).
C29_NoParametersGiveFirstTag ==
    (Tagged /\ NoParameters) =>
        /\ \A tg \in states :
              /\ start_lookup(tg) = FLOOR_PROB
              /\ \A t \in 1..Len(call.arg) :
                    emit_lookup(tg, call.arg[t]) = FLOOR_PROB
              /\ \A p \in states : trans_lookup(p, tg) = FLOOR_PROB
        /\ ret = Return([t \in 1..Len(call.arg) |-> UPOS_TAGS[1]])
        /\ ALL_UPOS_TAGS[1] = "ADJ"
        /\ "ADJ" \in states => UPOS_TAGS[1] = "ADJ"

C29_Witness ==
    /\ Tagged
    /\ NoParameters
    /\ Len(call.arg) = 2
    /\ ret.kind = "return"
    /\ ret.value[1] = ret.value[2]

-----------------------------------------------------------------------------
(* Properties of process, checked under SpecProcess *)

\* the items of S, a set of integers, in rising order
Ascending(S) ==
    [k \in 1..Cardinality(S) |->
        CHOOSE x \in S : Cardinality({y \in S : y < x}) = k - 1]

\* the places of the items of chars that are tokens: all but the blanks
TokenPlaces(chars) == {i \in 1..Len(chars) : chars[i] # " "}

\* the segment of the item at place i: two for every mark before it, and
\* one more if it is a mark itself
SegmentOf(chars, i) ==
    2 * Cardinality({j \in 1..(i - 1) : chars[j] \in {".", "!", "?"}})
        + (IF chars[i] \in {".", "!", "?"} THEN 1 ELSE 0)

\* the tokens of the segment seg, lower-cased, in the order of the text
TokensOf(chars, seg) ==
    LET places == Ascending({i \in TokenPlaces(chars) :
                                SegmentOf(chars, i) = seg})
    IN [k \in 1..Len(places) |-> lower(chars[places[k]])]

\* the segments of the text that hold a token, in the order of the text
Segments(chars) ==
    Ascending({SegmentOf(chars, i) : i \in TokenPlaces(chars)})

\* C30: process raises TypeError for a value that is not a string and
\* ValueError for the empty string; for any other text, if tag returns on the
\* tokens of every segment that has tokens (the text cut at '.', '!' and '?',
\* each mark a segment of its own), process returns one list per such
\* segment, in the order of the text, holding one (word, tag) pair per token
\* with the tags tag gives for the tokens of that segment alone; if tag
\* raises on a segment, process raises the same.
C30_ProcessTagsEachSegment ==
    call.op = "process" =>
        IF ~call.arg.is_str THEN ret = Raise("TypeError")
        ELSE IF call.arg.chars = << >> THEN ret = Raise("ValueError")
        ELSE Bind(call.arg.chars,
                  LAMBDA chars :
                    Bind(Segments(chars),
                         LAMBDA segs :
                            IF \A k \in 1..Len(segs) :
                                   tag(TokensOf(chars, segs[k])).kind = "return"
                            THEN /\ ret.kind = "return"
                                 /\ Len(ret.value) = Len(segs)
                                 /\ \A k \in 1..Len(segs) :
                                       Bind(TokensOf(chars, segs[k]),
                                            LAMBDA words :
                                               /\ Len(ret.value[k]) = Len(words)
                                               /\ ret.value[k] =
                                                     zip(words, tag(words).value))
                            ELSE /\ ret.kind = "raise"
                                 /\ \E k \in 1..Len(segs) :
                                       ret = tag(TokensOf(chars, segs[k]))))

\* process has returned two segments, a mark among them, of a text that has
\* a capital and a blank, with two different tags
C30_Witness ==
    /\ call.op = "process"
    /\ ret.kind = "return"
    /\ Len(ret.value) = 2
    /\ \E i \in 1..Len(call.arg.chars) : call.arg.chars[i] = "A"
    /\ \E i \in 1..Len(call.arg.chars) : call.arg.chars[i] \in {".", "?"}
    /\ ret.value[1][1][2] # ret.value[2][1][2]

-----------------------------------------------------------------------------
(* Properties of the two together, checked under SpecPipeline *)

\* the HMM has been trained twice on [(a, NOUN), (b, VERB)] and on nothing
\* else
TrainedTwiceOnNounVerb ==
    /\ total_words = 4
    /\ total_first_words = 2
    /\ start_counts["NOUN"] = 2
    /\ transition_counts["NOUN"]["VERB"] = 2
    /\ emission_counts["NOUN"] = [w \in {"a"} |-> 2]
    /\ emission_counts["VERB"] = [w \in {"b"} |-> 2]

\* C20 as claimed: with the tags NOUN and VERB, after two train calls on
\* [(a, NOUN), (b, VERB)], get_probabilities and a Viterbi on the model it
\* returned, tag on [a, b] returns [NOUN, VERB]
C20_EndToEndNounVerb ==
    (TrainedTwiceOnNounVerb /\ call = [op |-> "tag", arg |-> <<"a", "b">>])
        => ret = Return(<<"NOUN", "VERB">>)

====
